---- MODULE Spec2Model ----
(***************************************************************************)
(* Update coordination of the dwd_global_rad integration.                  *)
(*                                                                         *)
(* Two root pollers (ForecastUpdateCoordinator, MeasurementUpdate-         *)
(* Coordinator) fetch from the remote API server through one shared        *)
(* DWDGlobalRadAPIClient; one LocationDataUpdateCoordinator listens to     *)
(* both and assembles the location's snapshot in get_location_data; the    *)
(* location's sensor listens to the LocationDataUpdateCoordinator.         *)
(*                                                                         *)
(* All coroutines run on one event loop: a step of the model is the code   *)
(* a coroutine runs between two suspension points (an HTTP round trip of   *)
(* the client, or waiting for a refresh).  A task's pc names the call it   *)
(* is suspended in.                                                        *)
(*                                                                         *)
(* The three coordinators derive from Home Assistant's                     *)
(* DataUpdateCoordinator.  What the subclasses call or inherit from it     *)
(* (async_set_updated_data, async_request_refresh with its Debouncer, the  *)
(* refresh cycle around _async_update_data, the listeners) is modelled     *)
(* at the place the repository calls or inherits it.                       *)
(***************************************************************************)
EXTENDS Integers, Sequences, FiniteSets, Bags, TLC

\* ------------------------------------------------------------------ bounds
\* Tasks (handle-update, sensor and refresh coroutines of the location) that
\* may be alive at once; a notification finding the pool full is dropped.
MaxTasks == 2
\* Dataset revisions the API server goes through; 0 is "no data yet".
MaxVer == 2
\* Refreshes a behaviour goes through: the refresh cycles the two pollers
\* start (scheduled or requested) and the scheduled refreshes of the
\* location coordinator, together.
MaxRuns == 3

\* --------------------------------------------------------------- constants
Pollers == {"forecast", "measurement"}
Slots == {"timer", "req"}

\* ------------------------------------------------------------------ values
\* One element of a location's "measurements" / "forecasts" list: ver names
\* the server-side revision it came from, nvals the length of its
\* measurement_values / entries list.
NoEntry == [ver |-> 0, nvals |-> 0]
Entry(v, n) == [ver |-> v, nvals |-> n]

\* What get_location_by_name gave for one key of the location object:
\*   None   - the call returned None (status # 200 or an "error" body)
\*   nokey  - a location object without the key
\*   list   - the key holds a list, items
\*   dict   - the key holds a single object (items = <<that object>>)
\*   unread - not read yet (a task's local before its first read)
Val(tag, items) == [tag |-> tag, items |-> items]
NoneVal == Val("None", <<>>)
Unread == Val("unread", <<>>)
ListVal(items) == Val("list", items)

\* A LocationSnapshot; absent is Python's None.
Snapshot(m, f) == [absent |-> FALSE, measurements |-> m, forecasts |-> f]
Absent == [absent |-> TRUE, measurements |-> NoEntry, forecasts |-> NoEntry]

VARIABLES
  srv,        \* API server: [reg, m, f, mshape, nvals]: location known, dataset
              \* revisions, shape of the "measurements" key, values per entry
  coexisted,  \* history: the <<m, f>> revision pairs the server held at once
  cache,      \* DWDGlobalRadAPIClient._locations: None or a list of names
  pData,      \* poller -> DataUpdateCoordinator.data: None or a list of names
  pLus,       \* poller -> last_update_success
  pTimer,     \* poller -> the update_interval timer is scheduled
  pCycle,     \* poller -> slot -> pc of the refresh cycle in that slot
  dbTimer,    \* poller -> Debouncer cooldown timer is running
  dbFlag,     \* poller -> Debouncer._execute_at_end_of_timer
  pFailed,    \* history: poller -> its last finished fetch cycle failed
  tasks,      \* bag of the location's running coroutines
  locData,    \* LocationDataUpdateCoordinator.data (the published snapshot)
  locLus,     \* LocationDataUpdateCoordinator.last_update_success
  sensorVal,  \* the sensor's state after update_state
  budget,     \* scope: refreshes that may still start (negative: any number)
  ev,         \* history: what the last step was, if it ended a get_location_data
  life        \* the config entries, hass.data[DOMAIN] and what hangs on them

vars == <<srv, coexisted, cache, pData, pLus, pTimer, pCycle, dbTimer, dbFlag,
          pFailed, tasks, locData, locLus, sensorVal, budget, ev, life>>

LocName == "L"

Server(reg, m, f, mshape, nvals) == [reg |-> reg, m |-> m, f |-> f, mshape |-> mshape, nvals |-> nvals]

\* ------------------------------------------------------------ small helpers
\* A refresh may start while the budget lasts; a negative budget is no bound.
CanStart == budget # 0

Spend(b) == IF b > 0 THEN b - 1 ELSE b

Min(a, b) == IF a < b THEN a ELSE b

BagAdd(B, e, n) == IF n <= 0 THEN B ELSE B (+) [x \in {e} |-> n]

BagDel(B, e) == B (-) SetToBag({e})

\* Create n tasks e, as far as the pool has room.
Spawn(B, e, n) == BagAdd(B, e, Min(n, MaxTasks - BagCardinality(B)))

\* A poller's or the client's list of location names; none is Python's None.
NoneList == [none |-> TRUE, names |-> {}]
List(names) == [none |-> FALSE, names |-> names]

\* ------------------------------------------------------ the API client
\* get_location_by_name, projected on one key of the location object: None
\* for an unknown location, else the list the server holds (empty until the
\* first fetch after registration brought data).
ServerList(ver, nvals) == ListVal(IF ver = 0 THEN <<>> ELSE <<Entry(ver, nvals)>>)

\* The "measurements" key as the server's JSON body carries it: a list of
\* entries, a single entry object, or no such key.  A list holds the latest
\* revision only, or every revision so far, oldest or newest first.
Payload(shape, ver, nvals) ==
  IF shape = "nokey" THEN Val("nokey", <<>>)
  ELSE IF shape = "dict" THEN Val("dict", <<Entry(ver, nvals)>>)
  ELSE IF ver > 0 /\ shape = "oldest_first" THEN ListVal([i \in 1..ver |-> Entry(i, nvals)])
  ELSE IF ver > 0 /\ shape = "newest_first" THEN ListVal([i \in 1..ver |-> Entry(ver + 1 - i, nvals)])
  ELSE ServerList(ver, nvals)

get_location_by_name(key) ==
  IF ~srv.reg THEN NoneVal
  ELSE IF key = "m" THEN Payload(srv.mshape, srv.m, srv.nvals)
  ELSE ServerList(srv.f, 1)

\* The revisions a fetch_forecasts / fetch_measurements round trip may leave
\* on the server: nothing new, or the next revision.
NextVers(v) == {v, Min(v + 1, MaxVer)}

\* The key of the location object a poller's fetch refreshes.
KeyOf(p) == IF p = "forecast" THEN "f" ELSE "m"

\* fetch_locations: GET /locations; 200 gives the registered names, any
\* other status the empty list.
fetch_locations(ok) == List(IF ok /\ srv.reg THEN {LocName} ELSE {})

\* --------------------------------------------- get_location_data, pure part
\* "not measurement_data": the location object is never an empty dict, so it
\* is falsy exactly when it is None.
Falsy(v) == v.tag = "None"

\* '"measurements" not in data or not data["measurements"]'
KeyMissingOrEmpty(v) == v.tag = "nokey" \/ (v.tag = "list" /\ v.items = <<>>)

\* data[key][0] raises (KeyError on an object, IndexError on an empty list).
Raises0(v) == v.tag # "list" \/ v.items = <<>>

Item0(v) == IF Raises0(v) THEN NoEntry ELSE v.items[1]

\* A plausible slip: the forecast list's emptiness check is dropped and an
\* empty list tolerated, leaving a snapshot without its forecast side.
AssembleOneSided(md, fd) == IF Falsy(md) \/ Falsy(fd) \/ KeyMissingOrEmpty(md) \/ Raises0(md) THEN Absent ELSE Snapshot(Item0(md), Item0(fd))

\* Lines 264-289: the gate after the self-healing branch, the two emptiness
\* checks, the assembly of the snapshot from element 0 of each list; any
\* exception gives None.
Assemble(md, fd) ==
  IF Falsy(md) \/ Falsy(fd) THEN Absent
  ELSE IF KeyMissingOrEmpty(md) THEN Absent
  ELSE IF KeyMissingOrEmpty(fd) THEN Absent
  ELSE IF Raises0(md) \/ Raises0(fd) THEN Absent
  ELSE Snapshot(Item0(md), Item0(fd))

\* ----------------------------------------------------------------- tasks
\* A coroutine of the location: kind "handler" is _handle_update (created by
\* _create_handle_update_task on a poller's notification), "sensor" is the
\* sensor's _async_handle_coordinator_update, "timer" is the
\* LocationDataUpdateCoordinator's own scheduled _async_update_data.  A task
\* runs up to its first await when it is created, so it is born suspended in
\* the first read of get_location_data.  md and fd are get_location_data's
\* measurement_data and forecast_data.  History fields: pf (a parent
\* poller's last cycle had failed when the task was created), miss (the
\* first read of that side gave None), n (the add_location calls, refresh
\* requests and re-reads the self-healing branch issued).
NoCalls == [addM |-> 0, reqM |-> 0, rrM |-> 0, addF |-> 0, reqF |-> 0, rrF |-> 0]

NoMiss == [m |-> FALSE, f |-> FALSE]

NewTask(kind, pf) == [kind |-> kind, pc |-> "read1", md |-> Unread, fd |-> Unread, pf |-> pf, miss |-> NoMiss, n |-> NoCalls]

\* The pcs at which a task is suspended in an HTTP round trip of the client.
HttpPcs == {"read1", "read2", "addM", "rereadM", "addF", "rereadF"}

WaitPc(p) == IF p = "forecast" THEN "waitF" ELSE "waitM"

RereadPc(p) == IF p = "forecast" THEN "rereadF" ELSE "rereadM"

AddPc(p) == IF p = "forecast" THEN "addF" ELSE "addM"

ReqField(p) == IF p = "forecast" THEN "reqF" ELSE "reqM"

RrField(p) == IF p = "forecast" THEN "rrF" ELSE "rrM"

\* One more call of the kind field issued.
Bump(n, field) == [n EXCEPT ![field] = @ + 1]

\* The task awaiting the poller's debounced refresh resumes and issues its
\* re-read.
Release(B, p) ==
  LET W == {t \in DOMAIN B : t.pc = WaitPc(p)}
  IN IF W = {} THEN B
     ELSE LET t == CHOOSE x \in W : TRUE
          IN BagAdd(BagDel(B, t), [t EXCEPT !.pc = RereadPc(p), !.n = Bump(@, RrField(p))], 1)

AnyFailed(f) == f["forecast"] \/ f["measurement"]

\* What the last step was: "ret" when it ended a get_location_data (by the
\* task of kind kind; pf: the task was created while a parent poller was
\* failing, and one still is; miss, n, raised, absent, full describe the
\* pass), "none" otherwise.
NoEv == [type |-> "none", kind |-> "none", pf |-> FALSE, miss |-> NoMiss, n |-> NoCalls, raised |-> FALSE, absent |-> TRUE, full |-> FALSE]

\* ------------------------------------------------- sensor and publishing
\* The LocationDataUpdateCoordinator's listeners: the sensor's
\* _handle_coordinator_update is registered by CoordinatorEntity and once
\* more by AbstractGlobalRadiationSensor.async_added_to_hass.
SensorListeners == 2

\* GlobalRadiationMeasurementSensor.update_state: the value shown, or
\* unavailable; reading element 0 of an empty measurement_values raises
\* before anything is assigned.
update_state(old, res) ==
  IF res.absent THEN [shown |-> FALSE, ver |-> 0]
  ELSE IF res.measurements.nvals = 0 THEN old
  ELSE [shown |-> TRUE, ver |-> res.measurements.ver]

\* GlobalRadiationMeasurementSensor.available (and the base class's): the
\* coordinator's last_update_success; the _attr_available update_state
\* clears is not what the property returns.
available == locLus

NonEmpty(v) == v.tag = "list" /\ v.items # <<>>

\* A plausible slip: a pass that found nothing leaves the snapshot as it is.
KeepOnNone(res) == IF ~res.absent THEN res ELSE locData

\* What _handle_update publishes for the result of get_location_data
\* (lines 306-312): the snapshot, or None.
Published(res) == IF ~res.absent THEN res ELSE Absent

\* get_location_data returns res to the task that called it, and the caller
\* goes on to its end without suspending: _handle_update publishes the
\* snapshot or clears, the scheduled refresh stores what it got and
\* notifies, the sensor's handler calls update_state.  Publishing calls the
\* sensor's listeners, each of which creates a sensor task.
Finish(t, md, fd, n, res, raised) ==
  /\ tasks' = Spawn(BagDel(tasks, t), NewTask("sensor", FALSE), IF t.kind = "sensor" THEN 0 ELSE SensorListeners)
  /\ locData' = IF t.kind = "sensor" THEN locData ELSE IF t.kind = "handler" THEN Published(res) ELSE res
  /\ locLus' = IF t.kind = "sensor" THEN locLus ELSE TRUE
  /\ sensorVal' = IF t.kind = "sensor" THEN update_state(sensorVal, res) ELSE sensorVal
  /\ ev' = [type |-> "ret", kind |-> t.kind, pf |-> t.pf /\ AnyFailed(pFailed), miss |-> t.miss, n |-> n, raised |-> raised, absent |-> res.absent, full |-> NonEmpty(md) /\ NonEmpty(fd)]

Move(t, u) == tasks' = BagAdd(BagDel(tasks, t), u, 1)

\* --------------------------------------------------------------- pollers
\* How often a poller's listeners are called at the end of a cycle whose
\* _async_update_data returned locations: once by the async_set_updated_data
\* it calls itself (lines 95, 155) and once more by the refresh cycle that
\* called it, which stores the returned value and notifies again.
NotifiesOnSuccess == 2

\* A cycle whose _async_update_data returned None (lines 97-111): the refresh
\* cycle stores the None it got and notifies the listeners.
NotifiesOnFailure == 1

\* The value DataUpdateCoordinator.data holds after a failed cycle: the
\* except branches return None, and the cycle stores what was returned.
DataAfterFailure(old) == NoneList

\* last_update_success after a failed cycle: _async_update_data returned
\* normally, so the cycle counts as a success.
LusAfterFailure(old) == TRUE

\* _create_handle_update_task, called k times: each call creates a
\* _handle_update task, which (lines 297-304) clears the snapshot and ends
\* at once if the measurement poller's last_update_success is false, and
\* otherwise enters get_location_data.
Notify(B, k, lusM, pf) ==
  IF lusM THEN Spawn(B, NewTask("handler", pf), k)
  ELSE Spawn(B, NewTask("sensor", FALSE), k * SensorListeners)

\* The end of a refresh cycle of poller p in slot s; ok tells whether
\* _async_update_data got the locations (newCache) or returned None.  The
\* timer is scheduled again, the listeners are called; a debounced refresh
\* ("req") starts the debouncer's cooldown and resumes its caller.
EndCycle(p, s, ok, newCache) ==
  /\ cache' = newCache
  /\ pData' = [pData EXCEPT ![p] = IF ok THEN newCache ELSE DataAfterFailure(@)]
  /\ pLus' = [pLus EXCEPT ![p] = IF ok THEN TRUE ELSE LusAfterFailure(@)]
  /\ pTimer' = [pTimer EXCEPT ![p] = TRUE]
  /\ pCycle' = [pCycle EXCEPT ![p][s] = "idle"]
  /\ dbTimer' = [dbTimer EXCEPT ![p] = IF s = "req" THEN TRUE ELSE IF ok THEN FALSE ELSE @]
  /\ dbFlag' = [dbFlag EXCEPT ![p] = IF ok THEN FALSE ELSE @]
  /\ pFailed' = [pFailed EXCEPT ![p] = ~ok]
  /\ tasks' = Notify(IF s = "req" THEN Release(tasks, p) ELSE tasks,
                     IF ok THEN NotifiesOnSuccess ELSE NotifiesOnFailure,
                     pLus'["measurement"], AnyFailed(pFailed'))
  /\ locData' = IF pLus'["measurement"] THEN locData ELSE Absent
  /\ UNCHANGED locLus

\* The update_interval timer of poller p fires: a scheduled refresh cycle
\* starts (the timer is taken down, the debouncer cancelled) and suspends
\* in fetch_forecasts / fetch_measurements.  The interval (15, 60 min) is
\* longer than a cycle (30 s timeout), so the poller's earlier cycles ended.
Tick(p) ==
  /\ pTimer[p] /\ \A s \in Slots : pCycle[p][s] = "idle"
  /\ CanStart
  /\ budget' = Spend(budget)
  /\ pTimer' = [pTimer EXCEPT ![p] = FALSE]
  /\ dbTimer' = [dbTimer EXCEPT ![p] = FALSE]
  /\ dbFlag' = [dbFlag EXCEPT ![p] = FALSE]
  /\ pCycle' = [pCycle EXCEPT ![p]["timer"] = "fetch"]
  /\ ev' = NoEv
  /\ UNCHANGED <<srv, coexisted, cache, pData, pLus, pFailed, tasks, locData, locLus, sensorVal>>
  /\ UNCHANGED life

\* fetch_forecasts / fetch_measurements returns: the server refreshed its
\* data; then "await self.api_client.locations" either returns the cached
\* list at once, and the cycle ends, or suspends in fetch_locations.
FetchOk(p, s) ==
  /\ pCycle[p][s] = "fetch"
  /\ \E nv \in NextVers(srv[KeyOf(p)]) :
       srv' = IF srv.reg THEN [srv EXCEPT ![KeyOf(p)] = nv] ELSE srv
  /\ coexisted' = coexisted \cup {<<srv'.m, srv'.f>>}
  /\ IF ~cache.none
       THEN EndCycle(p, s, TRUE, cache)
       ELSE /\ pCycle' = [pCycle EXCEPT ![p][s] = "locations"]
            /\ UNCHANGED <<cache, pData, pLus, pTimer, dbTimer, dbFlag, pFailed, tasks, locData, locLus>>
  /\ ev' = NoEv
  /\ UNCHANGED <<sensorVal, budget>>
  /\ UNCHANGED life

\* fetch_locations returns and fills the client's cache; the cycle ends.
LocationsOk(p, s) ==
  /\ pCycle[p][s] = "locations"
  /\ \E ok \in BOOLEAN : EndCycle(p, s, TRUE, fetch_locations(ok))
  /\ ev' = NoEv
  /\ UNCHANGED <<srv, coexisted, sensorVal, budget>>
  /\ UNCHANGED life

\* The fetch or the locations read times out or raises: one of the except
\* branches of _async_update_data returns None.
FetchFail(p, s) ==
  /\ pCycle[p][s] \in {"fetch", "locations"}
  /\ EndCycle(p, s, FALSE, cache)
  /\ ev' = NoEv
  /\ UNCHANGED <<srv, coexisted, sensorVal, budget>>
  /\ UNCHANGED life

\* The debouncer's cooldown ends; a refresh asked for during the cooldown
\* runs now, unless a debounced refresh is running.
CooldownExpire(p) ==
  /\ dbTimer[p]
  /\ dbTimer' = [dbTimer EXCEPT ![p] = FALSE]
  /\ dbFlag' = [dbFlag EXCEPT ![p] = FALSE]
  /\ IF dbFlag[p] /\ pCycle[p]["req"] = "idle"
       THEN /\ CanStart
            /\ budget' = Spend(budget)
            /\ pTimer' = [pTimer EXCEPT ![p] = FALSE]
            /\ pCycle' = [pCycle EXCEPT ![p]["req"] = "fetch"]
       ELSE UNCHANGED <<pTimer, pCycle, budget>>
  /\ ev' = NoEv
  /\ UNCHANGED <<srv, coexisted, cache, pData, pLus, pFailed, tasks, locData, locLus, sensorVal>>
  /\ UNCHANGED life

\* async_request_refresh of poller p, as the Debouncer decides it: during the
\* cooldown the request is noted for the end of the cooldown ("flag"); while
\* a debounced refresh runs it is dropped ("drop"); otherwise a refresh cycle
\* starts and the caller waits for it ("run").  Neither "flag" nor "drop"
\* makes the caller wait.
ReqOutcome(p) == IF dbTimer[p] THEN "flag" ELSE IF pCycle[p]["req"] # "idle" THEN "drop" ELSE "run"

async_request_refresh(p) ==
  /\ dbFlag' = [dbFlag EXCEPT ![p] = IF ReqOutcome(p) = "flag" THEN TRUE ELSE IF ReqOutcome(p) = "run" THEN FALSE ELSE @]
  /\ pCycle' = [pCycle EXCEPT ![p]["req"] = IF ReqOutcome(p) = "run" THEN "fetch" ELSE @]
  /\ pTimer' = [pTimer EXCEPT ![p] = IF ReqOutcome(p) = "run" THEN FALSE ELSE @]
  /\ UNCHANGED dbTimer
  /\ (ReqOutcome(p) = "run") => CanStart
  /\ budget' = IF ReqOutcome(p) = "run" THEN Spend(budget) ELSE budget

\* ------------------------------------------------ the location's coroutines
\* Lines 228-232: the first read returns measurement_data.
Read1(t) ==
  /\ t.pc = "read1"
  /\ Move(t, [t EXCEPT !.pc = "read2", !.md = get_location_by_name("m")])
  /\ ev' = NoEv
  /\ UNCHANGED <<srv, coexisted, cache, pData, pLus, pTimer, pCycle, dbTimer, dbFlag, pFailed, locData, locLus, sensorVal, budget>>
  /\ UNCHANGED life

\* A plausible slip: a side is registered and refreshed whether or not its
\* read found it.
HealAlways(v) == TRUE

\* Lines 244 and 253: "if measurement_data is None", "if forecast_data is
\* None": the side is registered, refreshed and read again.
Heal(v) == v = NoneVal

\* Lines 233-243: the second read returns forecast_data; with both present
\* the snapshot is assembled, otherwise the self-healing branch is entered
\* and the first missing side's add_location issued.
Read2(t) ==
  /\ t.pc = "read2"
  /\ LET fd == get_location_by_name("f")
         u == [t EXCEPT !.fd = fd, !.miss = [m |-> t.md = NoneVal, f |-> fd = NoneVal]]
         pc == IF Heal(t.md) THEN "addM" ELSE "addF"
     IN IF Falsy(t.md) \/ Falsy(fd)
          THEN /\ Move(t, [u EXCEPT !.pc = pc, !.n = Bump(@, pc)])
               /\ ev' = NoEv
               /\ UNCHANGED <<locData, locLus, sensorVal>>
          ELSE Finish(t, t.md, fd, t.n, Assemble(t.md, fd), FALSE)
  /\ UNCHANGED <<srv, coexisted, cache, pData, pLus, pTimer, pCycle, dbTimer, dbFlag, pFailed, budget>>
  /\ UNCHANGED life

\* add_location: the server registers the location, with no data yet, or
\* answers with an error and registers nothing.
add_location(acc) == IF acc /\ ~srv.reg THEN [srv EXCEPT !.reg = TRUE, !.m = 0, !.f = 0] ELSE srv

\* Lines 244-248 and 253-257: add_location returns, and the poller's
\* refresh is requested; the task waits for the refresh if the debouncer
\* runs one for it, else it goes straight on to the re-read.
Add(t, p, acc) ==
  /\ t.pc = AddPc(p)
  /\ srv' = add_location(acc)
  /\ coexisted' = coexisted \cup {<<srv'.m, srv'.f>>}
  /\ async_request_refresh(p)
  /\ LET n == Bump(t.n, ReqField(p))
     IN IF ReqOutcome(p) = "run"
          THEN Move(t, [t EXCEPT !.n = n, !.pc = WaitPc(p)])
          ELSE Move(t, [t EXCEPT !.n = Bump(n, RrField(p)), !.pc = RereadPc(p)])
  /\ ev' = NoEv
  /\ UNCHANGED <<cache, pData, pLus, pFailed, locData, locLus, sensorVal>>
  /\ UNCHANGED life

\* Lines 249-253: the re-read of measurement_data returns; a missing
\* forecast side is healed next, else the gate of line 264 and the assembly.
RereadM(t) ==
  /\ t.pc = "rereadM"
  /\ LET md == get_location_by_name("m")
     IN IF Heal(t.fd)
          THEN /\ Move(t, [t EXCEPT !.md = md, !.n = Bump(@, "addF"), !.pc = "addF"])
               /\ ev' = NoEv
               /\ UNCHANGED <<locData, locLus, sensorVal>>
          ELSE Finish(t, md, t.fd, t.n, Assemble(md, t.fd), FALSE)
  /\ UNCHANGED <<srv, coexisted, cache, pData, pLus, pTimer, pCycle, dbTimer, dbFlag, pFailed, budget>>
  /\ UNCHANGED life

\* Lines 258-265: the re-read of forecast_data returns; the gate of line 264
\* and the assembly.
RereadF(t) ==
  /\ t.pc = "rereadF"
  /\ LET fd == get_location_by_name("f")
     IN Finish(t, t.md, fd, t.n, Assemble(t.md, fd), FALSE)
  /\ UNCHANGED <<srv, coexisted, cache, pData, pLus, pTimer, pCycle, dbTimer, dbFlag, pFailed, budget>>
  /\ UNCHANGED life

\* Lines 287-289: a client call of get_location_data raises (connection
\* error, malformed body); the except branch returns None.
PassFail(t) ==
  /\ t.pc \in HttpPcs
  /\ Finish(t, t.md, t.fd, t.n, Absent, TRUE)
  /\ UNCHANGED <<srv, coexisted, cache, pData, pLus, pTimer, pCycle, dbTimer, dbFlag, pFailed, budget>>
  /\ UNCHANGED life

\* The LocationDataUpdateCoordinator's own update_interval timer fires and
\* its refresh enters get_location_data (lines 291-293).
LocTick ==
  /\ BagCardinality(tasks) < MaxTasks
  /\ \A t \in DOMAIN tasks : t.kind # "timer"
  /\ CanStart
  /\ budget' = Spend(budget)
  /\ tasks' = BagAdd(tasks, NewTask("timer", FALSE), 1)
  /\ ev' = NoEv
  /\ UNCHANGED <<srv, coexisted, cache, pData, pLus, pTimer, pCycle, dbTimer, dbFlag, pFailed, locData, locLus, sensorVal>>
  /\ UNCHANGED life

\* ------------------------------------------- config entries and the registry
\* Most lifecycle operations (set up, unload, remove an entry) a behaviour
\* goes through.
MaxOps == 4

\* The location entries the user may configure, named by their location,
\* and the forecast camera's entry.
LocEntries == {"A", "B"}

CameraEntry == "cam"

Entries == LocEntries \cup {CameraEntry}

\* What the last lifecycle step's call gave its caller: op and arg name the
\* call, raised the exception that escaped it ("none": it returned), value
\* what it returned; call is what the client call it made did ("none": it
\* made none).
NoOut == [op |-> "none", arg |-> <<>>, raised |-> "none", value |-> "none", call |-> "none"]

Return(op, arg, value) == [op |-> op, arg |-> arg, raised |-> "none", value |-> value, call |-> "none"]

Raise(op, arg, exc) == [op |-> op, arg |-> arg, raised |-> exc, value |-> "none", call |-> "none"]

\* life: entries are the config entries Home Assistant holds, loaded those
\* set up; client and pollers tell what hass.data[DOMAIN] holds
\* ("api_client", "forecast_coordinator", "measurement_coordinator"), locs
\* the entry ids it holds a location_coordinator for; listeners counts, per
\* poller in hass.data and entry, the _create_handle_update_task callbacks
\* subscribed to it; provider is the set of locations registered with the
\* API server; open counts the aiohttp sessions created and not closed; ops
\* the lifecycle operations so far.  coords are the locations whose
\* LocationDataUpdateCoordinator exists (a poller's listener list refers to
\* it); orphans counts, per kind, the pollers popped from hass.data that
\* still hold listeners, and with them their update_interval timer; out is
\* the outcome of the last step's call; cfg is the config entries by name
\* and category, as the config flows see them.
NoCfg == [loc |-> [n \in Entries |-> 0], cams |-> 0, pending |-> 0]
\* ------------------------------------------------------ the forecast camera
\* async_update fetches only if 1800 s have passed (camera.py 83).
ThrottleSeconds == 1800

\* time.time() at the camera's creation (any real reading is at least
\* 1800), the clock's step, its last reading, and the poller notifications
\* looked at.
Clock0 == 1800

ClockStep == 600

MaxClock == 4200

MaxNotes == 4

\* What get_forecast_animated_gif gives (api_client.py 73-80): the body of a
\* 200 response, which may be empty, None for another status; or the
\* request raises.
FetchExceptions == {"ServerDisconnectedError", "ClientError", "Exception"}

Responses == {"gif1", "gif2", "empty", "None"} \cup FetchExceptions

\* "if image" (camera.py 90): None and empty bytes are false.
Truthy(image) == image \notin {"None", "empty"}

\* DWDGlobalRadCamera.__init__ (camera.py 29-44): no image, never updated.
\* scheduled and fetching count the async_update tasks created and not yet
\* started, and those awaiting the fetch; issued lists the clock readings
\* at which get_forecast_animated_gif was called.
NoCam == [now |-> Clock0, last_update_time |-> 0, last_image |-> "None", is_streaming |-> FALSE, scheduled |-> 0, fetching |-> 0, issued |-> <<>>, notes |-> 0]

\* _schedule_update (camera.py 73-77): a task for async_update is created.
schedule_update(c) == [c EXCEPT !.scheduled = @ + 1, !.notes = @ + 1]

\* async_update up to its await, with the time not noted before the fetch.
UpdateUnstamped(c) ==
  IF c.now - c.last_update_time < ThrottleSeconds THEN [c EXCEPT !.scheduled = @ - 1]
  ELSE [c EXCEPT !.scheduled = @ - 1, !.fetching = @ + 1, !.issued = Append(@, c.now)]

\* async_update up to its await (camera.py 79-89): less than 1800 s after
\* the last noted update it returns; else it notes the time and calls
\* get_forecast_animated_gif.
async_update(c) ==
  IF c.now - c.last_update_time < ThrottleSeconds THEN [c EXCEPT !.scheduled = @ - 1]
  ELSE [c EXCEPT !.scheduled = @ - 1, !.fetching = @ + 1, !.last_update_time = c.now, !.issued = Append(@, c.now)]

\* async_update after the fetch, storing whatever the fetch returned.
StoreAnything(c, image) ==
  IF image \in FetchExceptions THEN [c EXCEPT !.fetching = @ - 1, !.is_streaming = FALSE]
  ELSE [c EXCEPT !.fetching = @ - 1, !.last_image = image, !.is_streaming = Truthy(image)]

\* async_update after the fetch (camera.py 89-112): an image that is not
\* empty is stored; None, empty bytes and every exception only clear
\* is_streaming.
Fetched(c, image) ==
  IF image \in FetchExceptions \/ ~Truthy(image) THEN [c EXCEPT !.fetching = @ - 1, !.is_streaming = FALSE]
  ELSE [c EXCEPT !.fetching = @ - 1, !.last_image = image, !.is_streaming = TRUE]

\* async_camera_image (camera.py 66-71).
async_camera_image(c) == c.last_image



NoLife == [entries |-> {}, loaded |-> {}, client |-> FALSE, pollers |-> {}, locs |-> {}, listeners |-> [p \in Pollers |-> [e \in Entries |-> 0]], provider |-> {}, open |-> 0, ops |-> 0, coords |-> {}, orphans |-> [p \in Pollers |-> 0], out |-> NoOut, cfg |-> NoCfg, rest |-> FALSE, cam |-> NoCam]

\* What a lifecycle operation works on: life, the client's _locations and
\* the pollers' data.
World == [life |-> [life EXCEPT !.out = NoOut], cache |-> cache, data |-> pData]

\* "await api_client.locations" (api_client.py 22-27): the cached list, or,
\* with nothing cached, what fetch_locations gets from the server.
Locations(w) == IF w.cache.none THEN List(w.life.provider) ELSE w.cache

\* A successful refresh cycle of poller p (coordinator.py 90-96): the batch
\* fetch, the client's locations, async_set_updated_data.
RunCycle(w, p) == [w EXCEPT !.cache = Locations(w), !.data[p] = Locations(w)]

\* __init__.py 112-116: the client is created, and its session opened, if
\* hass.data holds none.
CreateClient(w) == IF w.life.client THEN w ELSE [w EXCEPT !.life.client = TRUE, !.life.open = @ + 1, !.cache = NoneList]

\* __init__.py 117-119: the REST view is registered once, and flagged.
RegisterView(w) == [w EXCEPT !.life.rest = TRUE]

\* __init__.py 125-141: poller p is created if hass.data holds none, and
\* refreshed for the first time.
CreatePoller(w, p) ==
  IF p \in w.life.pollers THEN w
  ELSE RunCycle([w EXCEPT !.life.pollers = @ \cup {p}, !.life.listeners[p] = [e \in Entries |-> 0], !.data[p] = NoneList], p)

\* LocationDataUpdateCoordinator.__init__ (coordinator.py 213-215): one more
\* callback of entry e on each poller; nothing keeps the unsubscribe handles.
Subscribe(l, e) == [p \in Pollers |-> [l[p] EXCEPT ![e] = @ + 1]]

\* __init__.py 159-186: the location is registered if the server does not
\* know it, its coordinator created and stored, the measurement poller's
\* refresh requested.
SetupLocation(w, e) == RunCycle([w EXCEPT !.life.provider = @ \cup {e}, !.life.listeners = Subscribe(@, e), !.life.locs = @ \cup {e}, !.life.coords = @ \cup {e}], "measurement")

\* DWDGlobalRadCamera.__init__ (camera.py 43-44): the camera's
\* _schedule_update is subscribed to the forecast poller, the handle dropped.
SetupCamera(w) == [w EXCEPT !.life.listeners["forecast"][CameraEntry] = @ + 1]

\* async_setup_entry, all its calls succeeding.  The camera's entry is
\* created (by a config flow task) if there is none.
async_setup_entry(w, e) ==
  LET w1 == CreatePoller(CreatePoller(RegisterView(CreateClient(w)), "forecast"), "measurement")
      w2 == [w1 EXCEPT !.life.entries = @ \cup {CameraEntry, e}]
      w3 == IF e = CameraEntry THEN SetupCamera(w2) ELSE SetupLocation(w2, e)
  IN [RunCycle(w3, "forecast") EXCEPT !.life.loaded = @ \cup {e}]

\* Lines 232-264 of async_unload_entry, run when the platforms unloaded: the
\* entry's data is deleted.  The entry is still one of Home Assistant's
\* config entries while it unloads; were there none, the pollers would be
\* shut down and popped and "await api_client.locations()" would raise (the
\* property is no method) before the REST flag is popped.
UnloadData(w, e) ==
  LET w1 == [w EXCEPT !.life.loaded = @ \ {e}, !.life.locs = @ \ {e}]
  IN IF w1.life.entries # {} THEN w1 ELSE [w1 EXCEPT !.life.pollers = {}]

\* What async_unload_entry returns, with what async_unload_platforms told.
Unloaded(e, unload_ok) == [Return("async_unload_entry", <<e>>, IF unload_ok THEN "True" ELSE "False") EXCEPT !.call = IF unload_ok THEN "unloaded" ELSE "unload_failed"]

\* async_unload_entry with the entry's data deleted whatever
\* async_unload_platforms returned.
UnloadRegardless(w, e, unload_ok) == [UnloadData(w, e) EXCEPT !.life.out = Unloaded(e, unload_ok)]

\* async_unload_entry (__init__.py 221-266): unload_ok is what
\* async_unload_platforms returns; everything else happens under
\* "if unload_ok", and unload_ok is returned.
async_unload_entry(w, e, unload_ok) ==
  IF unload_ok THEN [UnloadData(w, e) EXCEPT !.life.out = Unloaded(e, TRUE)]
  ELSE [w EXCEPT !.life.out = Unloaded(e, FALSE)]

\* async_remove_entry: KeyError without a client in hass.data (line 271);
\* else the location is removed at the server, the entry's data popped, and
\* with an empty locations list the client and the pollers are popped.
\* The pollers are popped as they are, not shut down: one that holds
\* listeners keeps its timer and goes on polling and notifying.
HasListeners(l) == \E e \in Entries : l[e] > 0

Orphaned(w) == [p \in Pollers |-> w.life.orphans[p] + IF p \in w.life.pollers /\ HasListeners(w.life.listeners[p]) THEN 1 ELSE 0]

async_remove_entry(w, e) ==
  IF ~w.life.client THEN [w EXCEPT !.life.out = Raise("async_remove_entry", <<e>>, "KeyError")]
  ELSE LET w1 == [w EXCEPT !.life.provider = @ \ {e}, !.life.locs = @ \ {e}, !.life.out = Return("async_remove_entry", <<e>>, "None")]
           w2 == [w1 EXCEPT !.cache = Locations(w1)]
       IN IF w2.cache.names # {} THEN w2 ELSE [w2 EXCEPT !.life.client = FALSE, !.life.pollers = {}, !.life.orphans = Orphaned(w2)]

\* How a run of get_location_data goes once the entry is found: the server
\* has both datasets, or not yet, or a call raises (get_location_by_name,
\* add_location or a forced refresh: ClientError, TimeoutError), or the
\* payload is malformed (KeyError, TypeError on subscripting it).
PassExceptions == {"ClientError", "TimeoutError", "KeyError", "TypeError"}

PassResults == {"snapshot", "None"} \cup PassExceptions

\* get_location_data of the LocationDataUpdateCoordinator of location e
\* (coordinator.py 217-289), the part inside "try".  No config entry of
\* that name is a ValueError (line 223); a location the server does not know
\* is registered (lines 244-262).
GetLocationDataBody(w, e, result) ==
  IF e \notin w.life.entries THEN [w EXCEPT !.life.out = Raise("get_location_data", <<e>>, "ValueError")]
  ELSE IF result \in PassExceptions THEN [w EXCEPT !.life.out = Raise("get_location_data", <<e>>, result)]
  ELSE [w EXCEPT !.life.provider = @ \cup {e}, !.life.out = Return("get_location_data", <<e>>, result)]

\* get_location_data without its "except": what is raised leaves it.
LetThrough(out) == out

\* Lines 287-289: "except Exception" logs the error and returns None.
CatchAll(out) == IF out.raised = "none" THEN out ELSE [Return(out.op, out.arg, "None") EXCEPT !.call = out.raised]

get_location_data(w, e, result) == LET w1 == GetLocationDataBody(w, e, result) IN [w1 EXCEPT !.life.out = CatchAll(@)]

\* A lifecycle step ends in world w, having been this kind of step on x.
Becomes(w, type, x) ==
  /\ life' = [w.life EXCEPT !.ops = IF type \in {"setup", "unload", "remove", "flow"} THEN @ + 1 ELSE @]
  /\ cache' = w.cache
  /\ pData' = w.data
  /\ ev' = [NoEv EXCEPT !.type = type, !.kind = x]
  /\ UNCHANGED <<srv, coexisted, pLus, pTimer, pCycle, dbTimer, dbFlag, pFailed, tasks, locData, locLus, sensorVal, budget>>

\* Home Assistant sets up entry e: a location entry the user adds or one
\* that was unloaded, or the camera's entry once the flow created it.
Setup(e) ==
  /\ life.ops < MaxOps
  /\ e \notin life.loaded
  /\ e = CameraEntry => e \in life.entries
  /\ Becomes(async_setup_entry(World, e), "setup", e)

\* Home Assistant unloads entry e (it is disabled or reloaded); its
\* platforms unload or fail to.
Unload(e) ==
  /\ life.ops < MaxOps
  /\ e \in life.loaded
  /\ \E unload_ok \in BOOLEAN : Becomes(async_unload_entry(World, e, unload_ok), "unload", e)

\* The user deletes entry e: Home Assistant unloads it if it is loaded
\* (whether or not that succeeds),
\* calls async_remove_entry, logs what that raises, and drops the entry.
Remove(e) ==
  /\ life.ops < MaxOps
  /\ e \in life.entries
  /\ \E unload_ok \in BOOLEAN :
     LET w == async_remove_entry(IF e \in life.loaded THEN async_unload_entry(World, e, unload_ok) ELSE World, e)
     IN Becomes([w EXCEPT !.life.entries = @ \ {e}, !.life.loaded = @ \ {e}], "remove", e)

\* A scheduled refresh cycle of a poller hass.data holds, succeeding.
Refresh(p) ==
  /\ p \in life.pollers
  /\ Becomes(RunCycle(World, p), "cycle", p)

\* ------------------------------------------------------- the config flows
\* cfg.loc[n] counts the config entries of category "location" named n,
\* cfg.cams those of category "forecast_camera" (all named CameraEntry, the
\* CONF_NAME of __init__.py 148), cfg.pending the implicit flows that
\* async_setup_entry started as tasks and that have not created their entry.
Named(c, n) == c.loc[n] + IF n = CameraEntry THEN c.cams ELSE 0

\* __init__.py 143-158, run by every async_setup_entry: without an entry of
\* category "forecast_camera" a task is created that starts the implicit
\* flow.
EnsureCamera(c) == IF c.cams = 0 THEN [c EXCEPT !.pending = @ + 1] ELSE c

\* async_step_user with the user's input (config_flow.py 58-72): a name some
\* entry carries gives the form back with "name_exists"; otherwise the
\* entry is created, and Home Assistant sets it up.
async_step_user(c, name) == IF Named(c, name) > 0 THEN c ELSE EnsureCamera([c EXCEPT !.loc[name] = @ + 1])

\* async_step_implicit_config_entry_create (config_flow.py 85-89): the entry
\* is created from the data it is given; Home Assistant sets it up.
async_step_implicit_config_entry_create(c) == EnsureCamera([c EXCEPT !.cams = @ + 1, !.pending = @ - 1])

\* The user submits the form with name.
Submit(name) ==
  /\ life.ops < MaxOps
  /\ Becomes([World EXCEPT !.life.cfg = async_step_user(@, name)], "flow", name)

\* A task started by async_setup_entry runs the implicit flow.
ImplicitCreate ==
  /\ life.cfg.pending > 0
  /\ Becomes([World EXCEPT !.life.cfg = async_step_implicit_config_entry_create(@)], "created", CameraEntry)

\* The user deletes a location entry named name, or a camera entry.
Delete(name, cam) ==
  /\ life.ops < MaxOps
  /\ IF cam THEN name = CameraEntry /\ life.cfg.cams > 0 ELSE life.cfg.loc[name] > 0
  /\ Becomes([World EXCEPT !.life.cfg = IF cam THEN [@ EXCEPT !.cams = @ - 1] ELSE [@ EXCEPT !.loc[name] = @ - 1]], "flow", name)

\* Home Assistant sets up a location entry that exists once more (it is
\* reloaded, or Home Assistant restarts).
Reload(name) ==
  /\ life.ops < MaxOps
  /\ life.cfg.loc[name] > 0
  /\ Becomes([World EXCEPT !.life.cfg = EnsureCamera(@)], "flow", name)

\* ------------------------------------------------------- the forecast view
\* Longest hours path segment requested.
MaxHours == 3

\* The characters of an hours segment: ASCII digits, SUPERSCRIPT TWO (a
\* digit to str.isdigit, not a decimal to int), the minus sign.
AsciiDigits == {"0", "1", "5", "9"}

HoursChars == AsciiDigits \cup {"sup2", "-"}

HoursInputs == UNION {[1..n -> HoursChars] : n \in 0..MaxHours}

\* str.isdigit: at least one character, and every character a digit.
isdigit(h) == Len(h) > 0 /\ \A i \in 1..Len(h) : h[i] \in AsciiDigits \cup {"sup2"}

\* int(h) raises ValueError unless every character is a decimal.
IntRaises(h) == Len(h) = 0 \/ \E i \in 1..Len(h) : h[i] \notin AsciiDigits

DigitValue(c) == IF c = "0" THEN 0 ELSE IF c = "1" THEN 1 ELSE IF c = "5" THEN 5 ELSE 9

RECURSIVE int(_)
int(h) == IF Len(h) = 0 THEN 0 ELSE 10 * int(SubSeq(h, 1, Len(h) - 1)) + DigitValue(h[Len(h)])

\* What get_forecast_for_future_hour does: it returns the body, the body is
\* no JSON (JSONDecodeError, a ValueError), the connection fails
\* (aiohttp.ClientError), the request times out.
CallOutcomes == {"ok", "ValueError", "ClientError", "TimeoutError"}

\* restapi.py 31-51: the try statement around the client call.  KeyError
\* and ValueError have handlers; for any other exception the next handler's
\* expression api_client.ApiError is evaluated, and the client has no such
\* attribute: AttributeError leaves the try statement.
Answer(h, outcome) ==
  IF outcome = "ok" THEN [Return("get", h, "200") EXCEPT !.call = outcome]
  ELSE IF outcome = "KeyError" THEN [Return("get", h, "404") EXCEPT !.call = outcome]
  ELSE IF outcome = "ValueError" THEN [Return("get", h, "400") EXCEPT !.call = outcome]
  ELSE [Raise("get", h, "AttributeError") EXCEPT !.call = outcome]

\* DWDGlobalRadRESTApi.get (restapi.py 19-51) for the hours segment h, with
\* or without a client in hass.data.
get(h, client, outcome) ==
  IF ~isdigit(h) THEN Return("get", h, "400")
  ELSE IF IntRaises(h) THEN Raise("get", h, "ValueError")
  ELSE IF ~(1 <= int(h) /\ int(h) <= 99) THEN Return("get", h, "400")
  ELSE IF ~client THEN Return("get", h, "500")
  ELSE Answer(h, outcome)

\* A GET request to the view.
Get(h, outcome) ==
  /\ Len(h) <= MaxHours
  /\ Becomes([World EXCEPT !.life.out = get(h, life.client, outcome)], "get", "none")

\* A location coordinator that exists runs get_location_data: a poller it
\* is subscribed to notified it, or its own timer fired.
Pass(e) ==
  /\ e \in life.coords
  /\ \E result \in PassResults : Becomes(get_location_data(World, e, result), "pass", e)

\* ------------------------------------------------------------ specification
\* The state in which the server is one of servers, budget refreshes may
\* start and the coroutines in pool are running: nothing fetched yet, the
\* pollers' timers scheduled.
InitWith(servers, b, pool) ==
  /\ srv \in servers
  /\ coexisted = {<<srv.m, srv.f>>}
  /\ cache = NoneList
  /\ pData = [p \in Pollers |-> NoneList]
  /\ pLus = [p \in Pollers |-> TRUE]
  /\ pTimer = [p \in Pollers |-> TRUE]
  /\ pCycle = [p \in Pollers |-> [s \in Slots |-> "idle"]]
  /\ dbTimer = [p \in Pollers |-> FALSE]
  /\ dbFlag = [p \in Pollers |-> FALSE]
  /\ pFailed = [p \in Pollers |-> FALSE]
  /\ tasks = pool
  /\ locData = Absent
  /\ locLus = TRUE
  /\ sensorVal = [shown |-> FALSE, ver |-> 0]
  /\ budget = b
  /\ ev = NoEv
  /\ life = NoLife

\* After the two pollers and the location's coordinator were built
\* (async_setup_entry): the server knows the location, with or without data
\* on either side, or (its registration failed, or the server lost it) does
\* not know it.
Init == InitWith({Server(FALSE, 0, 0, "list", 1)} \cup {Server(TRUE, m, f, "list", 1) : m, f \in 0..1}, MaxRuns, EmptyBag)

PollerStep == \E p \in Pollers : Tick(p) \/ CooldownExpire(p) \/ (\E s \in Slots : FetchOk(p, s) \/ LocationsOk(p, s) \/ FetchFail(p, s))

TaskStep == \E t \in DOMAIN tasks : Read1(t) \/ Read2(t) \/ RereadM(t) \/ RereadF(t) \/ PassFail(t) \/ (\E p \in Pollers, acc \in BOOLEAN : Add(t, p, acc))

Next == PollerStep \/ TaskStep \/ LocTick

Spec == Init /\ [][Next]_vars

\* ------------------------------------------- get_location_data on its inputs
\* The bodies the server may answer with for a location it knows.
Shapes == {"list", "dict", "nokey"}

\* get_location_data over every shape of the measurement body: the location
\* coordinator's scheduled refresh and the sensor's reads, no poller cycle.
InitAssemble == InitWith({Server(TRUE, m, f, sh, nv) : m, f \in 0..1, sh \in Shapes, nv \in 0..1}, MaxRuns, EmptyBag)

NextAssemble == LocTick \/ (\E t \in DOMAIN tasks : Read1(t) \/ Read2(t) \/ PassFail(t))

SpecAssemble == InitAssemble /\ [][NextAssemble]_vars

\* ------------------------------------ get_location_data on ordered lists
\* The orders in which the server may list a location's measurements.
Orders == {"oldest_first", "newest_first"}

\* As SpecAssemble, over servers that hold one or more revisions of each
\* dataset and list the measurements in either order.
InitOrder == InitWith({Server(TRUE, m, f, sh, 1) : m \in 1..MaxVer, f \in 1..MaxVer, sh \in Orders}, MaxRuns, EmptyBag)

SpecOrder == InitOrder /\ [][NextAssemble]_vars

\* ----------------------------------- a server that never knows the location
\* The server answers every get_location_by_name with an error and every
\* add_location with a rejection.  The measurement poller's first scheduled
\* cycle has just ended and notified its listeners, which created the
\* _handle_update tasks; no timer fires any more, no call raises, and forced
\* refreshes may start without bound.  Whatever is able to run does run: the
\* event loop resumes every coroutine whose call returned, the server
\* answers every request, and a cooldown timer that was set expires.
InitHeal ==
  /\ srv = Server(FALSE, 0, 0, "list", 1)
  /\ coexisted = {<<srv.m, srv.f>>}
  /\ cache = List({})
  /\ pData = [p \in Pollers |-> IF p = "measurement" THEN List({}) ELSE NoneList]
  /\ pLus = [p \in Pollers |-> TRUE]
  /\ pTimer = [p \in Pollers |-> TRUE]
  /\ pCycle = [p \in Pollers |-> [s \in Slots |-> "idle"]]
  /\ dbTimer = [p \in Pollers |-> FALSE]
  /\ dbFlag = [p \in Pollers |-> FALSE]
  /\ pFailed = [p \in Pollers |-> FALSE]
  /\ tasks = Spawn(EmptyBag, NewTask("handler", FALSE), NotifiesOnSuccess)
  /\ locData = Absent
  /\ locLus = TRUE
  /\ sensorVal = [shown |-> FALSE, ver |-> 0]
  /\ budget = -1
  /\ ev = NoEv
  /\ life = NoLife

TaskStepHeal == \E t \in DOMAIN tasks : Read1(t) \/ Read2(t) \/ RereadM(t) \/ RereadF(t) \/ (\E p \in Pollers : Add(t, p, FALSE))

FetchStepHeal(p) == \E s \in Slots : FetchOk(p, s)

NextHeal == TaskStepHeal \/ (\E p \in Pollers : CooldownExpire(p) \/ FetchStepHeal(p))

FairHeal == WF_vars(TaskStepHeal) /\ \A p \in Pollers : WF_vars(CooldownExpire(p)) /\ WF_vars(FetchStepHeal(p))

SpecHeal == InitHeal /\ [][NextHeal]_vars /\ FairHeal

\* ------------------------ the same server, with timers and failing fetches
\* As SpecHeal, but the pollers' update_interval timers fire and fetch
\* cycles may fail.  A timer that stays scheduled fires; one that a refresh
\* takes down and schedules anew starts its interval over.
NextStarve == NextHeal \/ (\E p \in Pollers : Tick(p) \/ (\E s \in Slots : FetchFail(p, s)))

FairStarve == FairHeal /\ \A p \in Pollers : WF_vars(Tick(p))

SpecStarve == InitHeal /\ [][NextStarve]_vars /\ FairStarve

\* --------------------------------------------- notifications, to their end
\* The measurement poller's cycle has just ended with the locations and
\* notified the location coordinator, which created its _handle_update
\* tasks.  The server knows the location or not, accepts a registration or
\* not; client calls return or raise; no timer fires, neither a poller's
\* interval nor a debouncer's cooldown.  Every coroutine whose client call
\* has come back (or failed) is resumed, and every fetch cycle ends, with
\* the data or within its 30 s timeout.
InitNotify ==
  /\ srv \in {Server(FALSE, 0, 0, "list", 1)} \cup {Server(TRUE, m, f, "list", 1) : m, f \in 0..1}
  /\ coexisted = {<<srv.m, srv.f>>}
  /\ cache = fetch_locations(TRUE)
  /\ pData = [p \in Pollers |-> IF p = "measurement" THEN cache ELSE NoneList]
  /\ pLus = [p \in Pollers |-> TRUE]
  /\ pTimer = [p \in Pollers |-> TRUE]
  /\ pCycle = [p \in Pollers |-> [s \in Slots |-> "idle"]]
  /\ dbTimer = [p \in Pollers |-> FALSE]
  /\ dbFlag = [p \in Pollers |-> FALSE]
  /\ pFailed = [p \in Pollers |-> FALSE]
  /\ tasks = Spawn(EmptyBag, NewTask("handler", FALSE), NotifiesOnSuccess)
  /\ locData = Absent
  /\ locLus = TRUE
  /\ sensorVal = [shown |-> FALSE, ver |-> 0]
  /\ budget = -1
  /\ ev = NoEv
  /\ life = NoLife

CycleStep(p, s) == FetchOk(p, s) \/ FetchFail(p, s)

NextNotify == TaskStep \/ (\E p \in Pollers, s \in Slots : CycleStep(p, s))

\* The step of a coroutine of this kind suspended at this pc.
StepAt(kind, pc) == \E t \in DOMAIN tasks : t.kind = kind /\ t.pc = pc /\ (Read1(t) \/ Read2(t) \/ RereadM(t) \/ RereadF(t) \/ PassFail(t) \/ (\E p \in Pollers, acc \in BOOLEAN : Add(t, p, acc)))

FairNotify ==
  /\ \A kind \in {"handler", "sensor"}, pc \in HttpPcs : WF_vars(StepAt(kind, pc))
  /\ \A p \in Pollers, s \in Slots : WF_vars(CycleStep(p, s))

SpecNotify == InitNotify /\ [][NextNotify]_vars /\ FairNotify

\* ------------------------------------------------- the entries' lifecycle
\* Home Assistant starts with no entry of the integration and a server that
\* knows no location; entries are set up, unloaded (or fail to unload) and
\* removed one at a time; the calls of set-up and removal succeed, those of
\* get_location_data may raise.
NextLife == (\E e \in LocEntries \cup {CameraEntry} : Setup(e) \/ Unload(e) \/ Remove(e)) \/ (\E p \in Pollers : Refresh(p)) \/ (\E e \in LocEntries : Pass(e))

InitLife == InitWith({Server(FALSE, 0, 0, "list", 1)}, MaxRuns, EmptyBag)

SpecLife == InitLife /\ [][NextLife]_vars

\* ------------------------------------------------ the config flows' entries
\* Users submit names and delete entries, entries are set up again, and the
\* implicit flows run when the event loop gets to them.
NextFlow == ImplicitCreate \/ (\E n \in Entries : Submit(n) \/ Reload(n) \/ (\E cam \in BOOLEAN : Delete(n, cam)))

SpecFlow == InitLife /\ [][NextFlow]_vars

\* ------------------------------------------------ requests to the view
\* One location's entry and the camera's are set up and removed, and the
\* view is asked for forecasts.
NextRest == (\E e \in {"A", CameraEntry} : Setup(e) \/ Remove(e)) \/ (\E h \in HoursInputs, outcome \in CallOutcomes : Get(h, outcome))

SpecRest == InitLife /\ [][NextRest]_vars

\* ------------------------------------------------------ start-up checks
\* The retries looked at (the code's defaults are 5 status checks and 10
\* add-on iterations).
MaxRetries == 3

\* What a GET /status ends in: 204, another status, or the request raises.
StatusReplies == {"204", "503", "raise"}

\* get_status (api_client.py 82-89): True for 204, False for another status.
get_status(reply) == IF reply = "raise" THEN "raise" ELSE IF reply = "204" THEN "True" ELSE "False"

\* wait_for_api_server (__init__.py 300-313) from attempt on; replies[i] is
\* what the i-th status request ends in.  Whatever get_status returns is
\* dropped: the loop returns True after the first call that does not raise.
RECURSIVE WaitFrom(_, _)
WaitFrom(replies, attempt) ==
  IF attempt > Len(replies) THEN FALSE
  ELSE IF get_status(replies[attempt]) # "raise" THEN TRUE
  ELSE WaitFrom(replies, attempt + 1)

wait_for_api_server(replies) == WaitFrom(replies, 1)

\* async_setup_entry with the server's replies to the status checks
\* (__init__.py 112-195): client and view are registered, then without a
\* True from wait_for_api_server ConfigEntryNotReady is raised, else the
\* pollers are created and the entry is set up.
SetupWaiting(w, e, replies) ==
  LET w1 == RegisterView(CreateClient(w))
  IN IF ~wait_for_api_server(replies) THEN [w1 EXCEPT !.life.out = Raise("async_setup_entry", replies, "ConfigEntryNotReady")]
     ELSE [async_setup_entry(w1, e) EXCEPT !.life.out = Return("async_setup_entry", replies, "True")]

\* What one iteration of ensure_addon_started meets: the add-on is started;
\* it is not and async_start_addon returns, or raises; or
\* async_get_addon_info raises.
Iterations == {"started", "start_ok", "start_raises", "info_raises"}

\* ensure_addon_started (__init__.py 198-218) from iteration attempt on,
\* Len(met) being retries.  async_get_addon_info is outside the "try"; an
\* async_start_addon that raises in the last iteration is
\* ConfigEntryNotReady; the loop running out is the function's end.
RECURSIVE EnsureFrom(_, _)
EnsureFrom(met, attempt) ==
  IF attempt > Len(met) THEN "returned"
  ELSE IF met[attempt] = "info_raises" THEN "HassioAPIError"
  ELSE IF met[attempt] = "started" THEN "returned"
  ELSE IF met[attempt] = "start_ok" THEN EnsureFrom(met, attempt + 1)
  ELSE IF attempt < Len(met) THEN EnsureFrom(met, attempt + 1)
  ELSE "ConfigEntryNotReady"

ensure_addon_started(met) ==
  LET end == EnsureFrom(met, 1)
  IN IF end = "returned" THEN Return("ensure_addon_started", met, "None") ELSE Raise("ensure_addon_started", met, end)

\* Home Assistant sets up entry e while the server answers the status
\* checks with replies.
StartUp(e, replies) ==
  /\ life.ops < MaxOps
  /\ e \notin life.loaded
  /\ e = CameraEntry => e \in life.entries
  /\ Becomes(SetupWaiting(World, e, replies), "setup", e)

\* async_setup_entry makes sure of the add-on (__init__.py 101-110).
EnsureAddon(met) ==
  /\ life.ops < MaxOps
  /\ Becomes([World EXCEPT !.life.out = ensure_addon_started(met)], "addon", "none")

NextStartup == (\E e \in Entries : Remove(e) \/ (\E replies \in [1..MaxRetries -> StatusReplies] : StartUp(e, replies))) \/ (\E met \in [1..MaxRetries -> Iterations] : EnsureAddon(met))

SpecStartup == InitLife /\ [][NextStartup]_vars

\* ------------------------------------------------ the camera's updates
\* The clock advances.
ClockTick ==
  /\ life.cam.now < MaxClock
  /\ Becomes([World EXCEPT !.life.cam.now = @ + ClockStep], "clock", "none")

\* The forecast poller notifies the camera's listener.
CameraNotified ==
  /\ life.cam.notes < MaxNotes
  /\ Becomes([World EXCEPT !.life.cam = schedule_update(@)], "notified", CameraEntry)

\* The event loop starts a created async_update task, which runs to its
\* await or its return.
UpdateStart ==
  /\ life.cam.scheduled > 0
  /\ Becomes([World EXCEPT !.life.cam = async_update(@)], "update", CameraEntry)

\* A fetch in flight ends, and the task with it.
UpdateEnd(image) ==
  /\ life.cam.fetching > 0
  /\ Becomes([World EXCEPT !.life.cam = Fetched(@, image), !.life.out = [Return("async_update", <<image>>, "None") EXCEPT !.call = "get_forecast_animated_gif"]], "fetched", CameraEntry)

\* Home Assistant asks the camera for its image.
CameraImage ==
  /\ life.cam.now <= MaxClock
  /\ Becomes([World EXCEPT !.life.out = Return("async_camera_image", <<>>, async_camera_image(life.cam))], "image", CameraEntry)

NextCamera == ClockTick \/ CameraNotified \/ UpdateStart \/ CameraImage \/ (\E image \in Responses : UpdateEnd(image))

SpecCamera == InitLife /\ [][NextCamera]_vars

\* ------------------------------------------------------------------- claims
\* C1: single-flight on the root pollers: a refresh request that arrives
\* while a fetch cycle of the poller is in flight starts no second fetch, so
\* a poller never has two fetch cycles in flight at once.
SingleFlight == \A p \in Pollers : ~(pCycle[p]["timer"] # "idle" /\ pCycle[p]["req"] # "idle")

\* C2: at most one assembly pass (an execution of get_location_data, from
\* its first client read to its return) of the location coordinator is in
\* progress at any time.
OnePassAtATime == BagCardinality(tasks) <= 1

\* C3: the published snapshot is absent, or holds a measurement entry and a
\* forecast entry taken from datasets the server held; and a pass returns a
\* snapshot only if both lists it read last were non-empty.
BothSidesOrAbsent ==
  /\ locData.absent \/ (locData.measurements.ver \in 1..srv.m /\ locData.forecasts.ver \in 1..srv.f)
  /\ (ev.type = "ret" /\ ~ev.absent) => ev.full

\* A _handle_update pass has just published a snapshot.
SnapshotPublished == ev.type = "ret" /\ ev.kind = "handler" /\ ~ev.absent /\ ~locData.absent

\* C4: the two sides of a published snapshot were the server's data for the
\* location at one common instant.
SidesCoexisted == locData.absent \/ <<locData.measurements.ver, locData.forecasts.ver>> \in coexisted

\* C5: not-ready gating: a snapshot never carries a measurement entry whose
\* list of measurement values is empty.
NotReadyGating == locData.absent \/ locData.measurements.nvals >= 1

\* This step ended a fetch cycle of poller p with a failure.
CycleFailed(p) == pFailed'[p] /\ \E s \in Slots : pCycle[p][s] # "idle" /\ pCycle'[p][s] = "idle"

\* C6: a fetch cycle that fails leaves the poller's data as it was before
\* the cycle.
FailureKeepsData == [][\A p \in Pollers : CycleFailed(p) => pData'[p] = pData[p]]_vars

\* C7: while a poller's last fetch cycle is a failed one, its
\* last_update_success is false.
FailureClearsSuccess == \A p \in Pollers : pFailed[p] => ~pLus[p]

\* C8: with a server that never knows the location, the system becomes
\* quiescent after finitely many passes, registrations and forced refreshes,
\* the snapshot absent.
Quiescent == tasks = EmptyBag /\ \A p \in Pollers : ~dbFlag[p] /\ \A s \in Slots : pCycle[p][s] = "idle"

HealingEnds == <>[](Quiescent /\ locData.absent)

\* C9: a pass of get_location_data issues, for the measurement and for the
\* forecast side, at most one add_location, one refresh request and one
\* re-read, in this order, and none for a side its first read found; if no
\* call raised, it issued exactly one of each for a side its first read did
\* not find, and it returned the snapshot if the lists it read last were
\* both non-empty.
SideHealedOnce(missed, add, req, rr, raised) ==
  /\ rr <= req /\ req <= add /\ add <= 1
  /\ ~missed => add = 0
  /\ (missed /\ ~raised) => rr = 1

SelfHealOnce ==
  ev.type = "ret" =>
    /\ SideHealedOnce(ev.miss.m, ev.n.addM, ev.n.reqM, ev.n.rrM, ev.raised)
    /\ SideHealedOnce(ev.miss.f, ev.n.addF, ev.n.reqF, ev.n.rrF, ev.raised)
    /\ (ev.full /\ ~ev.raised) => ~ev.absent

\* A pass found neither side, healed both and returned the snapshot.
HealedBothSides == ev.type = "ret" /\ ev.miss.m /\ ev.miss.f /\ ~ev.raised /\ ~ev.absent

\* C10: a _handle_update that runs while a parent poller reports a failed
\* fetch publishes absent.
FailingParentClears == (ev.type = "ret" /\ ev.kind = "handler" /\ ev.pf) => locData.absent

\* The callbacks of location coordinators subscribed to poller p.
ListenersOn(p) == life.listeners[p]["A"] + life.listeners[p]["B"]

\* C11: on each poller hass.data holds, the location coordinators'
\* callbacks are as many as the location entries that are set up: tearing an
\* entry down leaves no callback of its coordinator behind.
NoLeakedListeners == \A p \in life.pollers : ListenersOn(p) = Cardinality(life.loaded \cap LocEntries)

\* This step ended a fetch cycle of poller p with a success.
CycleSucceeded(p) == ~pFailed'[p] /\ \E s \in Slots : pCycle[p][s] # "idle" /\ pCycle'[p][s] = "idle"

\* The coroutines of the location a step created.
Created == BagCardinality(tasks') - BagCardinality(tasks)

\* C12: a successful fetch cycle calls the poller's listener (the location
\* coordinator's _create_handle_update_task, which creates one task a call)
\* exactly once.
NotifiedOnce == [][\A p \in Pollers : (CycleSucceeded(p) /\ BagCardinality(tasks) < MaxTasks) => Created = 1]_vars

\* C13: a failed fetch cycle calls none of the poller's listeners.
FailureNotifiesNobody == [][\A p \in Pollers : CycleFailed(p) => Created = 0]_vars

\* C14: while a poller's last cycle is a failed one and its timer has not
\* fired since, no refresh cycle of the poller starts.
NoRefetchAfterFailure == [][\A p \in Pollers : (pFailed[p] /\ pTimer[p] /\ pCycle[p]["req"] = "idle") => pCycle'[p]["req"] = "idle"]_vars

\* C15: after a failed fetch cycle of a poller, its update_interval timer
\* eventually fires and a scheduled cycle runs.
TickAfterFailure == \A p \in Pollers : pFailed[p] ~> (pCycle[p]["timer"] # "idle")

\* C16: after a successful fetch cycle the poller's data is the collection
\* of the locations registered with the server at that time.
DataIsRegistered == ev.type = "cycle" => pData[ev.kind] = List(life.provider)

\* C17: the list the client's locations property returns is the set of the
\* locations registered with the server.
CacheTracksRegistrations == (life.client /\ ~cache.none) => cache.names = life.provider

\* C18: while a location entry is configured, hass.data holds the client
\* and both pollers.
SharedKeptWhileUsed == (life.entries \cap LocEntries # {}) => (life.client /\ life.pollers = Pollers)

\* C19: the locations registered with the server are those of the location
\* entries that exist.
RegisteredWhileConfigured == life.provider = life.entries \cap LocEntries

\* C20: when hass.data holds no client, every session a client opened has
\* been closed.
SessionClosedOnDrop == ~life.client => life.open = 0

\* C21: a sensor's coroutine handling a coordinator update is never inside
\* a call of the remote client (a read, a registration, a wait for a forced
\* refresh): it only takes the published snapshot.
SensorReadsSnapshotOnly == \A t \in DOMAIN tasks : t.kind = "sensor" => t.pc \notin HttpPcs \cup {"waitM", "waitF"}

\* C22: once the location coordinator has published, the sensor is
\* unavailable whenever the snapshot is absent or the coordinator's last
\* refresh failed.
UnavailableWhileNotReady == (ev.type = "ret" /\ ev.kind # "sensor" /\ (locData.absent \/ ~locLus)) => ~available

\* C23: get_location_data for a location without a config entry ends in a
\* way its caller can tell from the not-ready result, a returned None.
NotFoundIsDistinct == (life.out.op = "get_location_data" /\ life.out.arg[1] \notin life.entries) => ~(life.out.raised = "none" /\ life.out.value = "None")

\* The pollers of kind p that hold listeners, in hass.data or popped.
Alive(p) == life.orphans[p] + IF p \in life.pollers /\ HasListeners(life.listeners[p]) THEN 1 ELSE 0

\* C29: at most one poller of each kind is alive.
OnePollerOfAKind == \A p \in Pollers : Alive(p) <= 1

\* C30: async_remove_entry never raises.
RemoveNeverRaises == life.out.op = "async_remove_entry" => life.out.raised = "none"

\* The hours segment is a decimal integer in 1..99.
ValidHours(h) == Len(h) > 0 /\ (\A i \in 1..Len(h) : h[i] \in AsciiDigits) /\ 1 <= int(h) /\ int(h) <= 99

\* C26: for an hours segment that is no decimal integer in 1..99 the view
\* answers 400 and calls no client, with or without a client.
BadHoursRejected == (life.out.op = "get" /\ ~ValidHours(life.out.arg)) => (life.out.raised = "none" /\ life.out.value = "400" /\ life.out.call = "none")

\* C27: for valid hours the view returns a response with status 200, 400,
\* 404 or 500 and no exception escapes it; a client call that failed with a
\* connection error or a timeout is answered with 500.
AlwaysStructured ==
  (life.out.op = "get" /\ ValidHours(life.out.arg)) =>
    /\ life.out.raised = "none"
    /\ life.out.value \in {"200", "400", "404", "500"}
    /\ life.out.call \in {"ClientError", "TimeoutError"} => life.out.value = "500"

\* C28: no two config entries carry the same name.
NamesUnique == \A n \in Entries : Named(life.cfg, n) <= 1

\* C25: a snapshot the location coordinator's refresh returned holds the
\* most recent measurement entry and the most recent forecast entry the
\* server has for the location, in whatever order the server lists them.
MostRecentEntries == (ev.type = "ret" /\ ev.kind = "timer" /\ ~locData.absent) => (locData.measurements.ver = srv.m /\ locData.forecasts.ver = srv.f)

\* The _handle_update tasks that have not ended.
Handlers == BagCardinality([t \in {x \in DOMAIN tasks : x.kind = "handler"} |-> tasks[t]])

\* C24: every _handle_update task a notification created ends, and ends by
\* publishing once: the step that ends it is the one publish it makes (the
\* snapshot its pass returned, or absent), the snapshot changes in no step
\* but the end of a pass, and while a task is pending a publish follows,
\* whatever the client's calls return or raise.
NotificationPublishes ==
  /\ [][Handlers' < Handlers => (Handlers' = Handlers - 1 /\ ev'.type = "ret" /\ ev'.kind = "handler" /\ locData'.absent = ev'.absent)]_vars
  /\ [][locData' # locData => (ev'.type = "ret" /\ ev'.kind = "handler" /\ Handlers' = Handlers - 1)]_vars
  /\ (Handlers > 0) ~> (ev.type = "ret" /\ ev.kind = "handler")

\* A _handle_update whose pass raised has published absent, while another
\* one is pending.
ClearedAfterRaise == ev.type = "ret" /\ ev.kind = "handler" /\ ev.raised /\ locData.absent /\ Handlers > 0

\* C31: there is never more than one config entry of category
\* forecast_camera, however the set-ups of entries and the implicit flows
\* they start interleave.
AtMostOneCamera == life.cfg.cams <= 1

\* What hass.data registers: the entries' location coordinators, the
\* pollers, the client and the REST-setup flag.
Registry(l) == [locs |-> l.locs, pollers |-> l.pollers, client |-> l.client, rest |-> l.rest]

\* C32: an async_unload_entry whose platforms fail to unload returns false
\* and leaves the registry as it was: the location coordinators, both
\* pollers, the client and the REST-setup flag stay registered.
FailedUnloadKeepsRegistry == [][(life'.out.op = "async_unload_entry" /\ life'.out.call = "unload_failed") => (life'.out.value = "False" /\ Registry(life') = Registry(life))]_vars

\* An unload of a location entry has failed with its coordinator, the
\* pollers, the client and the flag registered.
UnloadFailed == life.out.op = "async_unload_entry" /\ life.out.call = "unload_failed" /\ life.out.arg[1] \in life.locs /\ life.pollers = Pollers /\ life.client /\ life.rest

\* C33: get_location_data never raises: whatever fails inside it (no config
\* entry of the name, a client call or a forced refresh raising, a malformed
\* payload), it returns, and what it returns is the absent result.
NeverRaises == life.out.op = "get_location_data" => (life.out.raised = "none" /\ (life.out.call # "none" => life.out.value = "None"))

\* A client call has raised inside a get_location_data of an entry that
\* exists, and None was returned.
CallRaisedInside == life.out.op = "get_location_data" /\ life.out.call = "ClientError" /\ life.out.value = "None" /\ life.out.arg[1] \in life.entries

\* C34: a camera object calls get_forecast_animated_gif at most once per 1800 s:
\* however the poller's notifications and the update tasks they create
\* interleave, and whether or not an earlier fetch succeeded, any two calls
\* are at least 1800 s apart.
FetchesSpaced == \A i, j \in DOMAIN life.cam.issued : i < j => life.cam.issued[j] - life.cam.issued[i] >= ThrottleSeconds

\* A second fetch has been issued after a first one that stored no image,
\* and an update task has been created while it is in flight.
SecondFetchAfterFailure == Len(life.cam.issued) = 2 /\ life.cam.last_image = "None" /\ life.cam.fetching = 1 /\ life.cam.scheduled > 0

\* C35: the stored image, which async_camera_image returns, changes only
\* when a fetch returns an image that is not empty, and then to that image;
\* a fetch that raises or returns None or nothing leaves it as it was.
ImageKeptOnFailure == [][/\ (life'.cam.last_image # life.cam.last_image => (life'.out.op = "async_update" /\ Truthy(life'.out.arg[1]) /\ life'.cam.last_image = life'.out.arg[1]))
                         /\ ((life'.out.op = "async_update" /\ ~Truthy(life'.out.arg[1])) => life'.cam.last_image = life.cam.last_image)
                         /\ (life'.out.op = "async_camera_image" => life'.out.value = life.cam.last_image)]_vars

\* A fetch has failed with an image stored, and the image is still returned.
ImageSurvivedFailure == life.out.op = "async_camera_image" /\ life.out.value = "gif1" /\ ~life.cam.is_streaming

\* C36: wait_for_api_server returns true only if one of the status checks
\* it made reported healthy (204), so an async_setup_entry that got past it
\* and created the pollers has seen the server healthy.
PollersAfterHealthy == (life.out.op = "async_setup_entry" /\ life.out.raised = "none") => \E i \in DOMAIN life.out.arg : life.out.arg[i] = "204" /\ \A j \in 1..(i - 1) : life.out.arg[j] = "raise"

\* C37: ensure_addon_started returns normally only if it saw the add-on
\* started; if in none of its iterations the add-on was seen started (its
\* state having been read each time), it raises ConfigEntryNotReady.
StartedOrNotReady ==
  life.out.op = "ensure_addon_started" =>
    /\ life.out.raised = "none" => \E i \in DOMAIN life.out.arg : life.out.arg[i] = "started"
    /\ (\A i \in DOMAIN life.out.arg : life.out.arg[i] \in {"start_ok", "start_raises"}) => life.out.raised = "ConfigEntryNotReady"

====
